---- MODULE Spec2Model ----
(***************************************************************************)
(* DataPrepper (src/DataPrepper.py): the TF-IDF vectorization pipeline.    *)
(*                                                                         *)
(* Python dicts are insertion-ordered: a dict is modelled as a sequence of *)
(* entries [k |-> key, v |-> value] with pairwise distinct keys.  Tokens,  *)
(* directory names and file names are small integers, class labels are     *)
(* strings, a path is the sequence of its segments.                        *)
(*                                                                         *)
(* A float weight (1 + ln tf) * ln(N / df) is kept symbolically as         *)
(* [tf, num, den] with num/den the reduced fraction N/df; it is the float  *)
(* 0.0 exactly when ln(N/df) = ln(1.0), i.e. num = den (1 + ln tf >= 1).   *)
(***************************************************************************)
EXTENDS Integers, Sequences, FiniteSets, TLC

VARIABLES
  pc,                    \* position of the running operation
  mode,                  \* "train" | "test" | "tfidf" | "cull": what is being run
  manifest,              \* lines of the file at PATH_TO_CLASS_LIST
  files,                 \* path -> raw text of the document file
  arg_doc_freq,          \* run_test's parameter doc_freq
  fpc,                   \* self.fpc
  class_names,           \* self.class_names
  dataset,               \* dict doc_name -> [doc, label] (sample_texts' result)
  doc_freq_map,          \* tokenize_dataset's doc_freq_map
  cull,                  \* the call of cull_doc_freq: [in, low, high, out]
  call,                  \* the call of setup_tfidf_vectors: its four arguments
  i,                     \* documents finished by the running loop
  j,                     \* tokens of the current document processed
  f_vector,              \* setup_tfidf_vectors' f_vector
  f_vectors_classname,   \* setup_tfidf_vectors' f_vectors_classname
  idf_src,               \* which df map the latest idf computation read
  ret,                   \* value returned by run / run_test
  err                    \* exception raised, "none" if none

vars == <<pc, mode, manifest, files, arg_doc_freq, fpc, class_names, dataset,
          doc_freq_map, cull, call, i, j, f_vector, f_vectors_classname,
          idf_src, ret, err>>

(***************************************************************************)
(* Bounds of the model                                                     *)
(***************************************************************************)
\* largest number of documents of an enumerated corpus
MaxDocs == 3
\* largest document count and threshold of an enumerated cull_doc_freq call
MaxCount == 3
\* large corpora have from the smallest size that passes the program's
\* thresholds up to BigExtra documents more
BigExtra == 1

(***************************************************************************)
(* Program constants                                                       *)
(***************************************************************************)
\* run(): self.cull_doc_freq(doc_freq, 50, ...)
LowNumDocs == 50
\* run_test(): print(f_vectors_filepath[0]), [20], [45]
PrintIndex0 == 0
PrintIndex1 == 20
PrintIndex2 == 45

(***************************************************************************)
(* Sequences and dicts                                                     *)
(***************************************************************************)
Range(s) == {s[n] : n \in DOMAIN s}

\* x in s, for a list s
InSeq(x, s) == \E n \in DOMAIN s : s[n] = x

\* s.index(x): the first position holding x
IndexOf(s, x) == CHOOSE n \in DOMAIN s : s[n] = x /\ \A m \in 1..(n - 1) : s[m] # x

\* s.count(x)
RECURSIVE Count(_, _)
Count(s, x) ==
  IF s = <<>> THEN 0
  ELSE (IF Head(s) = x THEN 1 ELSE 0) + Count(Tail(s), x)

\* list(d.keys())
Keys(d) == [n \in DOMAIN d |-> d[n].k]

\* k in d.keys()
HasKey(d, k) == \E n \in DOMAIN d : d[n].k = k

\* d[k], for a key of d
Get(d, k) == d[CHOOSE n \in DOMAIN d : d[n].k = k].v

\* d[k] = v: a new key is appended, an existing key keeps its position
Put(d, k, v) ==
  IF HasKey(d, k)
  THEN [n \in DOMAIN d |-> IF d[n].k = k THEN [k |-> k, v |-> v] ELSE d[n]]
  ELSE Append(d, [k |-> k, v |-> v])

\* a well-formed dict: keys pairwise distinct
IsDict(d) == \A m, n \in DOMAIN d : d[m].k = d[n].k => m = n

(***************************************************************************)
(* Floats of the weight computation                                        *)
(***************************************************************************)
RECURSIVE Gcd(_, _)
Gcd(a, b) == IF b = 0 THEN a ELSE Gcd(b, a % b)

\* the float 0 (and the int 0 of [0] * N_VOCAB, which equals it)
Zero == [tf |-> 0, num |-> 1, den |-> 1]

\* (1 + log(tf)) if tf > 0 else 0.0, named by tf
LogTf(tf) == IF tf > 0 THEN tf ELSE 0

\* log(n / d) for d > 0, named by the reduced fraction n/d
LogIdf(n, d) == <<n \div Gcd(n, d), d \div Gcd(n, d)>>

\* log_tf * log_idf
Weight(log_tf, log_idf) ==
  IF log_tf = 0 \/ log_idf[1] = log_idf[2] THEN Zero
  ELSE [tf |-> log_tf, num |-> log_idf[1], den |-> log_idf[2]]

(***************************************************************************)
(* setup_tfidf_vectors                                                     *)
(***************************************************************************)
\* the default doc_freq_map_testset=None, and a supplied map
None == [supplied |-> FALSE, map |-> <<>>]
Some(m) == [supplied |-> TRUE, map |-> m]

\* Python truth value of doc_freq_map_testset: None and {} are false
Truthy(dft) == dft.supplied /\ Len(dft.map) > 0

\* the idf read from the primary map in every case
AlwaysPrimary(c) == "primary"

\* `if test_mode and doc_freq_map_testset:` which map the idf is read from
SelectedSource(c) ==
  IF c.test_mode /\ Truthy(c.doc_freq_map_testset) THEN "testset" ELSE "primary"

SelectedMap(c) ==
  IF SelectedSource(c) = "testset" THEN c.doc_freq_map_testset.map ELSE c.doc_freq_map

\* a vector with one slot per token of the document
DocLengthVector(c, doc) == [n \in 1..Len(doc) |-> Zero]

\* [0] * N_VOCAB
ZeroVector(c, doc) == [n \in 1..Len(c.doc_freq_map) |-> Zero]

\* the occurrences of the token up to position n only
OccurrencesSoFar(doc, n) == Count(SubSeq(doc, 1, n), doc[n])

\* the number of tokens of the document
DocLength(doc, n) == Len(doc)

\* tf = doc.count(token), for the token at position n of doc
TermFrequency(doc, n) == Count(doc, doc[n])

\* One iteration of `for token in doc`, for the token at position n, on
\* f_vector fv.  c is the call
\* [dict_class_documents, doc_freq_map, doc_freq_map_testset, test_mode].
ProcessToken(c, doc, n, fv) ==
  LET token == doc[n]
      vocab == Keys(c.doc_freq_map)
      N_DOCNAMES == Len(c.dict_class_documents)
      m == SelectedMap(c)
  IN IF ~ InSeq(token, vocab)
     THEN [err |-> "none", f_vector |-> fv, src |-> "none"]
     ELSE IF ~ HasKey(m, token)
     THEN [err |-> "KeyError:idf", f_vector |-> fv, src |-> SelectedSource(c)]
     ELSE IF Len(Get(m, token)) = 0
     THEN [err |-> "ZeroDivisionError:idf", f_vector |-> fv, src |-> SelectedSource(c)]
     ELSE LET tf == TermFrequency(doc, n)
              w == Weight(LogTf(tf), LogIdf(N_DOCNAMES, Len(Get(m, token))))
          IN [err |-> "none",
              f_vector |-> [fv EXCEPT ![IndexOf(vocab, token)] = w],
              src |-> SelectedSource(c)]

\* `for token in doc` from token n + 1 on: the f_vector, or the error raised
RECURSIVE TokenLoop(_, _, _, _)
TokenLoop(c, doc, n, fv) ==
  IF n = Len(doc) THEN [err |-> "none", f_vector |-> fv]
  ELSE LET r == ProcessToken(c, doc, n + 1, fv)
       IN IF r.err # "none" THEN [err |-> r.err, f_vector |-> r.f_vector]
          ELSE TokenLoop(c, doc, n + 1, r.f_vector)

\* `for i, doc_name in enumerate(doc_names)` from document n + 1 on
RECURSIVE DocLoop(_, _, _)
DocLoop(c, n, acc) ==
  IF n = Len(c.dict_class_documents) THEN [err |-> "none", result |-> acc]
  ELSE LET e == c.dict_class_documents[n + 1].v
           r == TokenLoop(c, e.doc, 0, ZeroVector(c, e.doc))
       IN IF r.err # "none" THEN [err |-> r.err, result |-> <<>>]
          ELSE DocLoop(c, n + 1, Append(acc, [f_vector |-> r.f_vector, label |-> e.label]))

\* print_loading_bar(chunk, N, ...): percentage = (chunk / N) * 100
print_loading_bar(chunk, N) ==
  IF N = 0 THEN "ZeroDivisionError:print_loading_bar" ELSE "none"

\* the whole function: what it returns, or the error it raises
setup_tfidf_vectors(c) ==
  IF print_loading_bar(0, Len(c.dict_class_documents)) # "none"
  THEN [err |-> print_loading_bar(0, Len(c.dict_class_documents)), result |-> <<>>]
  ELSE DocLoop(c, 0, <<>>)

(***************************************************************************)
(* The state before anything has run                                       *)
(***************************************************************************)
NoCall == [dict_class_documents |-> <<>>, doc_freq_map |-> <<>>,
           doc_freq_map_testset |-> None, test_mode |-> FALSE]
NoCull == [in |-> <<>>, low |-> 0, high |-> 0, out |-> <<>>]
NoRet == [returned |-> FALSE, vectors |-> <<>>, doc_freq |-> <<>>]

(***************************************************************************)
(* setup_tfidf_vectors, statement by statement                             *)
(***************************************************************************)
N_DOCNAMES == Len(call.dict_class_documents)
CurrentDoc == call.dict_class_documents[i + 1].v

\* lines 111-117: the prologue and the first print_loading_bar
TfidfStart ==
  /\ pc = "tfidf_call"
  /\ i' = 0
  /\ j' = 0
  /\ f_vector' = <<>>
  /\ f_vectors_classname' = <<>>
  /\ idf_src' = "none"
  /\ err' = print_loading_bar(0, N_DOCNAMES)
  /\ pc' = IF err' = "none" THEN "doc_loop" ELSE "raised"
  /\ UNCHANGED <<mode, manifest, files, arg_doc_freq, fpc, class_names, dataset,
                 doc_freq_map, cull, call, ret>>

\* lines 118-121: the next document, f_vector = [0] * N_VOCAB
TfidfDocStart ==
  /\ pc = "doc_loop"
  /\ i < N_DOCNAMES
  /\ f_vector' = ZeroVector(call, CurrentDoc.doc)
  /\ j' = 0
  /\ pc' = "token_loop"
  /\ UNCHANGED <<mode, manifest, files, arg_doc_freq, fpc, class_names, dataset,
                 doc_freq_map, cull, call, i, f_vectors_classname, idf_src, ret, err>>

\* lines 123-134: one token of the document
TfidfToken ==
  /\ pc = "token_loop"
  /\ j < Len(CurrentDoc.doc)
  /\ LET r == ProcessToken(call, CurrentDoc.doc, j + 1, f_vector)
     IN /\ f_vector' = r.f_vector
        /\ idf_src' = r.src
        /\ err' = r.err
        /\ pc' = IF r.err = "none" THEN "token_loop" ELSE "raised"
  /\ j' = j + 1
  /\ UNCHANGED <<mode, manifest, files, arg_doc_freq, fpc, class_names, dataset,
                 doc_freq_map, cull, call, i, f_vectors_classname, ret>>

\* lines 136-138: f_vectors_classname.append([f_vector, class_name])
TfidfDocEnd ==
  /\ pc = "token_loop"
  /\ j = Len(CurrentDoc.doc)
  /\ f_vectors_classname' =
       Append(f_vectors_classname, [f_vector |-> f_vector, label |-> CurrentDoc.label])
  /\ i' = i + 1
  /\ idf_src' = "none"
  /\ pc' = "doc_loop"
  /\ UNCHANGED <<mode, manifest, files, arg_doc_freq, fpc, class_names, dataset,
                 doc_freq_map, cull, call, j, f_vector, ret, err>>

\* line 140: return f_vectors_classname
TfidfReturn ==
  /\ pc = "doc_loop"
  /\ i = N_DOCNAMES
  /\ pc' = "tfidf_returned"
  /\ UNCHANGED <<mode, manifest, files, arg_doc_freq, fpc, class_names, dataset,
                 doc_freq_map, cull, call, i, j, f_vector, f_vectors_classname,
                 idf_src, ret, err>>

(***************************************************************************)
(* setup_tfidf_vectors called on enumerated arguments                      *)
(***************************************************************************)
\* token lists of the enumerated documents (3 is in no enumerated df map)
TokenLists == {<<>>, <<1>>, <<1, 2, 1>>, <<2, 3>>, <<3, 1, 3>>}

\* df maps: values are lists of document names
DfMaps ==
  { <<>>,
    <<[k |-> 1, v |-> <<1>>]>>,
    <<[k |-> 1, v |-> <<>>]>>,
    <<[k |-> 2, v |-> <<1, 2>>], [k |-> 1, v |-> <<1>>]>>,
    <<[k |-> 1, v |-> <<1, 2>>], [k |-> 2, v |-> <<2>>]>> }

TestsetArgs ==
  { None, Some(<<>>), Some(<<[k |-> 1, v |-> <<1>>]>>),
    Some(<<[k |-> 2, v |-> <<1>>], [k |-> 1, v |-> <<1, 2>>]>>) }

\* the corpus whose n-th document has name n, token list docs[n] and label "A"
CorpusOf(docs) ==
  [n \in DOMAIN docs |-> [k |-> n, v |-> [doc |-> docs[n], label |-> "A"]]]

InitTfidf ==
  /\ pc = "tfidf_call"
  /\ mode = "tfidf"
  /\ \E n \in 0..MaxDocs : \E docs \in [1..n -> TokenLists] :
       \E dfm \in DfMaps, dft \in TestsetArgs, tm \in BOOLEAN :
         call = [dict_class_documents |-> CorpusOf(docs), doc_freq_map |-> dfm,
                 doc_freq_map_testset |-> dft, test_mode |-> tm]
  /\ manifest = <<>> /\ files = <<>> /\ arg_doc_freq = <<>> /\ fpc = <<>>
  /\ class_names = <<>> /\ dataset = <<>> /\ doc_freq_map = <<>> /\ cull = NoCull
  /\ i = 0 /\ j = 0 /\ f_vector = <<>> /\ f_vectors_classname = <<>>
  /\ idf_src = "none" /\ ret = NoRet /\ err = "none"

NextTfidf ==
  \/ TfidfStart
  \/ TfidfDocStart
  \/ TfidfToken
  \/ TfidfDocEnd
  \/ TfidfReturn

SpecTfidf == InitTfidf /\ [][NextTfidf]_vars

(***************************************************************************)
(* cull_doc_freq                                                           *)
(***************************************************************************)
\* the range test with the upper bound included
KeptInclusive(num_occurrences, low_num_docs, high_num_docs) ==
  num_occurrences <= high_num_docs /\ num_occurrences > low_num_docs

\* `if num_occurrences < high_num_docs and num_occurrences > low_num_docs`
Kept(num_occurrences, low_num_docs, high_num_docs) ==
  num_occurrences < high_num_docs /\ num_occurrences > low_num_docs

\* the entries kept, in the order of doc_freq_map.keys()
cull_doc_freq(m, low_num_docs, high_num_docs) ==
  SelectSeq(m, LAMBDA e : Kept(Len(e.v), low_num_docs, high_num_docs))

\* cull_doc_freq called on enumerated arguments
CullCall ==
  /\ pc = "cull_call"
  /\ cull' = [cull EXCEPT !.out = cull_doc_freq(cull.in, cull.low, cull.high)]
  /\ pc' = "cull_returned"
  /\ UNCHANGED <<mode, manifest, files, arg_doc_freq, fpc, class_names, dataset,
                 doc_freq_map, call, i, j, f_vector, f_vectors_classname, idf_src,
                 ret, err>>

\* tokens of the enumerated df maps
CullTokens == {1, 2, 3}

\* the df map giving token t the document names 1..counts[t], tokens with a
\* negative count left out
MapOfCounts(counts) ==
  LET entry(t) == [k |-> t, v |-> [n \in 1..counts[t] |-> n]]
  IN SelectSeq([t \in 1..Cardinality(CullTokens) |-> entry(t)],
               LAMBDA e : counts[e.k] >= 0)

InitCull ==
  /\ pc = "cull_call"
  /\ mode = "cull"
  /\ \E counts \in [CullTokens -> (-1)..MaxCount] :
       \E low \in 0..MaxCount, high \in 0..MaxCount :
         cull = [in |-> MapOfCounts(counts), low |-> low, high |-> high, out |-> <<>>]
  /\ manifest = <<>> /\ files = <<>> /\ arg_doc_freq = <<>> /\ fpc = <<>>
  /\ class_names = <<>> /\ dataset = <<>> /\ doc_freq_map = <<>> /\ call = NoCall
  /\ i = 0 /\ j = 0 /\ f_vector = <<>> /\ f_vectors_classname = <<>>
  /\ idf_src = "none" /\ ret = NoRet /\ err = "none"

NextCull == CullCall

SpecCull == InitCull /\ [][NextCull]_vars

(***************************************************************************)
(* Tokenizer (external collaborator) and manifest parsing                  *)
(***************************************************************************)
\* words the Tokenizer drops
StopWords == {0}

\* Tokenizer.tokenize: raw text -> ordered sequence of normalized tokens
Tokenize(text) == SelectSeq(text, LAMBDA w : w \notin StopWords)

\* Tokenizer.split_on_slash_from_back(path)[1]: the final path segment
split_on_slash_from_back(path) == <<SubSeq(path, 1, Len(path) - 1), path[Len(path)]>>

\* load_paths_to_training_text: [doc_name, path_to_doc, class_name] per line
load_paths_to_training_text(lines) ==
  [n \in DOMAIN lines |->
     [name |-> split_on_slash_from_back(lines[n].path)[2],
      path |-> lines[n].path,
      class |-> lines[n].class]]

\* load_paths_to_test_text: [doc_name, path_to_doc] per line
load_paths_to_test_text(lines) ==
  [n \in DOMAIN lines |->
     [name |-> split_on_slash_from_back(lines[n].path)[2],
      path |-> lines[n].path]]

\* positions of the list keys holding a key that no earlier position holds
FirstPositions(keys) ==
  SelectSeq([n \in DOMAIN keys |-> n], LAMBDA n : \A m \in 1..(n - 1) : keys[m] # keys[n])

\* the last position of the list keys holding k
LastPosition(keys, k) ==
  CHOOSE n \in DOMAIN keys : keys[n] = k /\ \A m \in (n + 1)..Len(keys) : keys[m] # k

\* get_class_names: `if candidate_class_name not in result: result.append(...)`
\* over self.fpc: the distinct class names, in order of first appearance
get_class_names(entries) ==
  LET classes == [n \in DOMAIN entries |-> entries[n].class]
      firsts == FirstPositions(classes)
  IN [n \in DOMAIN firsts |-> classes[firsts[n]]]

(***************************************************************************)
(* sample_texts, sample_texts_for_test                                     *)
(***************************************************************************)
\* `for fpc in self.fpc: result[doc_name] = values[...]` on an empty dict,
\* values[n] being the value assigned for the n-th entry: a doc_name keeps
\* the position of its first assignment and holds the value of its last one
AssignAll(entries, values) ==
  LET names == [n \in DOMAIN entries |-> entries[n].name]
      firsts == FirstPositions(names)
  IN [n \in DOMAIN firsts |->
        [k |-> names[firsts[n]], v |-> values[LastPosition(names, names[firsts[n]])]]]

\* result[doc_name] = [f.read(), class_name]
sample_texts(entries, fs) ==
  AssignAll(entries, [n \in DOMAIN entries |->
                        [doc |-> fs[entries[n].path], label |-> entries[n].class]])

\* result[doc_name] = [f.read(), path_to_doc]
sample_texts_for_test(entries, fs) ==
  AssignAll(entries, [n \in DOMAIN entries |->
                        [doc |-> fs[entries[n].path], label |-> entries[n].path]])

(***************************************************************************)
(* tokenize_dataset                                                        *)
(***************************************************************************)
\* lines 89-96 for one document: the tokens after the n-th, with
\* tokens_processed_before = seen
RECURSIVE RecordFrom(_, _, _, _, _)
RecordFrom(dfm, doc_name, tokens, n, seen) ==
  IF n = Len(tokens) THEN dfm
  ELSE LET token == tokens[n + 1]
       IN IF InSeq(token, seen)
          THEN RecordFrom(dfm, doc_name, tokens, n + 1, seen)
          ELSE RecordFrom(
                 IF ~ HasKey(dfm, token)
                 THEN Put(dfm, token, <<doc_name>>)
                 ELSE Put(dfm, token, Append(Get(dfm, token), doc_name)),
                 doc_name, tokens, n + 1, Append(seen, token))

\* the same without tokens_processed_before
RECURSIVE RecordEveryOccurrence(_, _, _)
RecordEveryOccurrence(dfm, doc_name, tokens) ==
  IF tokens = <<>> THEN dfm
  ELSE RecordEveryOccurrence(
         IF ~ HasKey(dfm, Head(tokens))
         THEN Put(dfm, Head(tokens), <<doc_name>>)
         ELSE Put(dfm, Head(tokens), Append(Get(dfm, Head(tokens)), doc_name)),
         doc_name, Tail(tokens))

RecordDoc(dfm, doc_name, tokens) == RecordFrom(dfm, doc_name, tokens, 0, <<>>)

(***************************************************************************)
(* __init__, run, run_test                                                 *)
(***************************************************************************)
\* __init__(PATH_TO_STOP_WORDS, PATH_TO_CLASS_LIST, test_mode)
Construct ==
  /\ pc = "new"
  /\ fpc' = IF mode = "test" THEN load_paths_to_test_text(manifest)
            ELSE load_paths_to_training_text(manifest)
  /\ class_names' = IF mode = "test" THEN class_names ELSE get_class_names(fpc')
  /\ pc' = "constructed"
  /\ UNCHANGED <<mode, manifest, files, arg_doc_freq, dataset, doc_freq_map, cull,
                 call, i, j, f_vector, f_vectors_classname, idf_src, ret, err>>

\* run(), line 40: dataset = self.sample_texts()
RunSampleTexts ==
  /\ pc = "constructed"
  /\ mode = "train"
  /\ dataset' = sample_texts(fpc, files)
  /\ pc' = "tokenize_call"
  /\ UNCHANGED <<mode, manifest, files, arg_doc_freq, fpc, class_names,
                 doc_freq_map, cull, call, i, j, f_vector, f_vectors_classname,
                 idf_src, ret, err>>

\* run_test(), line 63: dataset_filepath = self.sample_texts_for_test()
RunTestSampleTexts ==
  /\ pc = "constructed"
  /\ mode = "test"
  /\ dataset' = sample_texts_for_test(fpc, files)
  /\ pc' = "tokenize_call"
  /\ UNCHANGED <<mode, manifest, files, arg_doc_freq, fpc, class_names,
                 doc_freq_map, cull, call, i, j, f_vector, f_vectors_classname,
                 idf_src, ret, err>>

\* tokenize_dataset, lines 80-84
TokenizeStart ==
  /\ pc = "tokenize_call"
  /\ doc_freq_map' = <<>>
  /\ i' = 0
  /\ err' = print_loading_bar(0, Len(dataset))
  /\ pc' = IF err' = "none" THEN "tokenizing" ELSE "raised"
  /\ UNCHANGED <<mode, manifest, files, arg_doc_freq, fpc, class_names, dataset,
                 cull, call, j, f_vector, f_vectors_classname, idf_src, ret>>

\* tokenize_dataset, lines 85-98: one document
TokenizeDoc ==
  /\ pc = "tokenizing"
  /\ i < Len(dataset)
  /\ LET doc_name == dataset[i + 1].k
         tokens == Tokenize(dataset[i + 1].v.doc)
     IN /\ dataset' = [dataset EXCEPT ![i + 1].v.doc = tokens]
        /\ doc_freq_map' = RecordDoc(doc_freq_map, doc_name, tokens)
  /\ i' = i + 1
  /\ UNCHANGED <<pc, mode, manifest, files, arg_doc_freq, fpc, class_names, cull,
                 call, j, f_vector, f_vectors_classname, idf_src, ret, err>>

\* tokenize_dataset has returned (line 100)
Tokenized == pc = "tokenizing" /\ i = Len(dataset)

\* run(), lines 43-50: cull the df map, call setup_tfidf_vectors(docs, doc_freq)
RunCull ==
  /\ Tokenized
  /\ mode = "train"
  /\ cull' = [in |-> doc_freq_map, low |-> LowNumDocs, high |-> Len(Keys(doc_freq_map)),
              out |-> cull_doc_freq(doc_freq_map, LowNumDocs, Len(Keys(doc_freq_map)))]
  /\ call' = [dict_class_documents |-> dataset, doc_freq_map |-> cull'.out,
              doc_freq_map_testset |-> None, test_mode |-> FALSE]
  /\ pc' = "tfidf_call"
  /\ UNCHANGED <<mode, manifest, files, arg_doc_freq, fpc, class_names, dataset,
                 doc_freq_map, i, j, f_vector, f_vectors_classname, idf_src, ret, err>>

\* run_test(), lines 64-67: setup_tfidf_vectors(docs, doc_freq,
\* doc_freq_map_testset=doc_freq_testset, test_mode=True)
RunTestVectorize ==
  /\ Tokenized
  /\ mode = "test"
  /\ call' = [dict_class_documents |-> dataset, doc_freq_map |-> arg_doc_freq,
              doc_freq_map_testset |-> Some(doc_freq_map), test_mode |-> TRUE]
  /\ pc' = "tfidf_call"
  /\ UNCHANGED <<mode, manifest, files, arg_doc_freq, fpc, class_names, dataset,
                 doc_freq_map, cull, i, j, f_vector, f_vectors_classname, idf_src,
                 ret, err>>

\* run(), line 59: return [feature_vectors_class, doc_freq]
RunReturn ==
  /\ pc = "tfidf_returned"
  /\ mode = "train"
  /\ ret' = [returned |-> TRUE, vectors |-> f_vectors_classname, doc_freq |-> cull.out]
  /\ pc' = "returned"
  /\ UNCHANGED <<mode, manifest, files, arg_doc_freq, fpc, class_names, dataset,
                 doc_freq_map, cull, call, i, j, f_vector, f_vectors_classname,
                 idf_src, err>>

\* s[index] of a Python list raises IndexError unless index < len(s)
InRange(s, index) == index < Len(s)

\* run_test(), lines 68-71: three prints of fixed entries, then the return
RunTestReturn ==
  /\ pc = "tfidf_returned"
  /\ mode = "test"
  /\ IF /\ InRange(f_vectors_classname, PrintIndex0)
        /\ InRange(f_vectors_classname, PrintIndex1)
        /\ InRange(f_vectors_classname, PrintIndex2)
     THEN /\ ret' = [returned |-> TRUE, vectors |-> f_vectors_classname,
                     doc_freq |-> <<>>]
          /\ pc' = "returned"
          /\ err' = err
     ELSE /\ err' = "IndexError:print"
          /\ pc' = "raised"
          /\ ret' = ret
  /\ UNCHANGED <<mode, manifest, files, arg_doc_freq, fpc, class_names, dataset,
                 doc_freq_map, cull, call, i, j, f_vector, f_vectors_classname,
                 idf_src>>

(***************************************************************************)
(* The manifests, document files and arguments the pipeline is run on      *)
(***************************************************************************)
\* paths of the enumerated manifests: two directories holding files of the
\* same two names
Paths == {<<1, 1>>, <<2, 1>>, <<1, 2>>, <<2, 2>>}
Classes == {"A", "B"}

\* raw texts of the enumerated document files (0 is a stop word)
RawTexts == {<<0>>, <<1>>, <<2, 0, 2>>, <<1, 2, 1>>}

\* enumerated corpora: every manifest of up to MaxDocs lines naming distinct
\* files, every content of the files it names
SmallInput ==
  \E n \in 0..MaxDocs : \E paths \in [1..n -> Paths] :
    /\ \A m1, m2 \in 1..n : paths[m1] = paths[m2] => m1 = m2
    /\ files \in [Range(paths) -> RawTexts]
    /\ \/ /\ mode = "train"
          /\ \E classes \in [1..n -> Classes] :
               manifest = [m \in 1..n |-> [path |-> paths[m], class |-> classes[m]]]
          /\ arg_doc_freq = <<>>
       \/ /\ mode = "test"
          /\ manifest = [m \in 1..n |-> [path |-> paths[m]]]
          /\ arg_doc_freq \in DfMaps

\* the path of the n-th document of a large corpus, and its private token
BigPath(n) == <<1, n>>
OwnToken(n) == 10 + n

\* large training corpora: more than LowNumDocs documents, each with a token
\* of its own, the first k of them also holding token 1
BigTrainInput ==
  \E n \in (LowNumDocs + 1)..(LowNumDocs + 1 + BigExtra) : \E k \in {n - 1, n} :
    /\ mode = "train"
    /\ manifest = [m \in 1..n |-> [path |-> BigPath(m), class |-> "A"]]
    /\ files = [p \in {BigPath(m) : m \in 1..n} |->
                  IF p[2] <= k THEN <<1, 0, OwnToken(p[2])>> ELSE <<OwnToken(p[2])>>]
    /\ arg_doc_freq = <<>>

\* large test corpora: enough documents for the prints of run_test
BigTestInput ==
  \E n \in (PrintIndex2 + 1)..(PrintIndex2 + 1 + BigExtra) :
    /\ mode = "test"
    /\ manifest = [m \in 1..n |-> [path |-> BigPath(m)]]
    /\ files = [p \in {BigPath(m) : m \in 1..n} |->
                  IF p[2] = 1 THEN <<2, 2>> ELSE <<1, 0, 2>>]
    /\ arg_doc_freq \in DfMaps

Init ==
  /\ pc = "new"
  /\ (SmallInput \/ BigTrainInput \/ BigTestInput)
  /\ fpc = <<>> /\ class_names = <<>> /\ dataset = <<>> /\ doc_freq_map = <<>>
  /\ cull = NoCull /\ call = NoCall
  /\ i = 0 /\ j = 0 /\ f_vector = <<>> /\ f_vectors_classname = <<>>
  /\ idf_src = "none" /\ ret = NoRet /\ err = "none"

Next ==
  \/ Construct
  \/ RunSampleTexts
  \/ RunTestSampleTexts
  \/ TokenizeStart
  \/ TokenizeDoc
  \/ RunCull
  \/ RunTestVectorize
  \/ TfidfStart
  \/ TfidfDocStart
  \/ TfidfToken
  \/ TfidfDocEnd
  \/ TfidfReturn
  \/ RunReturn
  \/ RunTestReturn

Spec == Init /\ [][Next]_vars

(***************************************************************************)
(* Properties of setup_tfidf_vectors (SpecTfidf)                           *)
(***************************************************************************)
Vocab == Keys(call.doc_freq_map)
Documents == call.dict_class_documents

\* C1: every feature vector returned by setup_tfidf_vectors, and the one
\* under construction, has as many components as the doc_freq_map has keys,
\* whatever the number of tokens of the document.
C1_VectorLength ==
  LET n_keys == Cardinality({e.k : e \in Range(call.doc_freq_map)})
  IN /\ \A n \in DOMAIN f_vectors_classname :
          Len(f_vectors_classname[n].f_vector) = n_keys
     /\ (pc = "token_loop" => Len(f_vector) = n_keys)

\* a returned result over a two-token vocabulary holding the vector of a
\* document with no token and the vector of a document with three tokens
C1_Witness ==
  /\ pc = "tfidf_returned"
  /\ Len(Vocab) = 2
  /\ \E m, n \in DOMAIN f_vectors_classname :
       /\ Documents[m].v.doc = <<>>
       /\ Len(Documents[n].v.doc) = 3
       /\ Len(f_vectors_classname[m].f_vector) = 2
       /\ Len(f_vectors_classname[n].f_vector) = 2

\* the call with every occurrence of token t removed from the documents at
\* the positions in S
Without(c, S, t) ==
  [c EXCEPT !.dict_class_documents =
     [n \in DOMAIN c.dict_class_documents |->
        IF n \in S
        THEN [c.dict_class_documents[n] EXCEPT
                !.v.doc = SelectSeq(c.dict_class_documents[n].v.doc, LAMBDA x : x # t)]
        ELSE c.dict_class_documents[n]]]

\* tokens of the corpus that are no key of the doc_freq_map
NonVocabTokens ==
  UNION {Range(Documents[n].v.doc) : n \in DOMAIN Documents} \ Range(Vocab)

\* C5: for the doc_freq_map and test-set map of the call held fixed, removing
\* all occurrences of a token that is no key of the doc_freq_map from any
\* documents of the corpus changes neither the returned list of feature
\* vectors nor the error raised.
C5_NonVocabularyTokensIgnored ==
  pc \in {"tfidf_returned", "raised"} =>
    \A t \in NonVocabTokens : \A S \in SUBSET DOMAIN Documents :
      LET r == setup_tfidf_vectors(Without(call, S, t))
      IN /\ r.err = err
         /\ (err = "none" => r.result = f_vectors_classname)

\* a returned result for a document holding a token outside the vocabulary
\* next to a vocabulary token of non-zero weight
C5_Witness ==
  /\ pc = "tfidf_returned"
  /\ \E n \in DOMAIN Documents :
       /\ Range(Documents[n].v.doc) \cap NonVocabTokens # {}
       /\ \E p \in DOMAIN Vocab :
            /\ InSeq(Vocab[p], Documents[n].v.doc)
            /\ f_vectors_classname[n].f_vector[p] # Zero

\* C6 (as claimed): every idf computation reads the test-set map whenever
\* test_mode is true and a test-set map is supplied, an empty one included,
\* and the primary map otherwise.
C6_TestsetMapUsedWheneverSupplied ==
  idf_src # "none" =>
    idf_src = (IF call.test_mode /\ call.doc_freq_map_testset.supplied
               THEN "testset" ELSE "primary")

\* the weight a reference computes once for token t of document doc, from
\* the number of occurrences of t in the token multiset of doc
RefWeight(c, doc, t) ==
  Weight(LogTf(Cardinality({n \in DOMAIN doc : doc[n] = t})),
         LogIdf(Len(c.dict_class_documents), Len(Get(SelectedMap(c), t))))

\* the reference vector of doc restricted to the tokens of `seen`
RefVector(c, doc, seen) ==
  [p \in DOMAIN Keys(c.doc_freq_map) |->
     IF Keys(c.doc_freq_map)[p] \in seen
     THEN RefWeight(c, doc, Keys(c.doc_freq_map)[p])
     ELSE Zero]

\* C10: every finished vector equals the reference vector computed once per
\* distinct token; and after any prefix of a document's tokens the slot of
\* every vocabulary token already seen holds its final weight, every other
\* slot 0.
C10_PerOccurrenceEqualsPerToken ==
  /\ \A n \in DOMAIN f_vectors_classname :
       f_vectors_classname[n].f_vector =
         RefVector(call, Documents[n].v.doc, Range(Documents[n].v.doc))
  /\ (pc = "token_loop" =>
        f_vector = RefVector(call, CurrentDoc.doc, Range(SubSeq(CurrentDoc.doc, 1, j))))

\* a proper prefix has been processed whose last token is a vocabulary token
\* of non-zero weight that occurs again later in the document
C10_Witness ==
  /\ pc = "token_loop"
  /\ 0 < j /\ j < Len(CurrentDoc.doc)
  /\ InSeq(CurrentDoc.doc[j], Vocab)
  /\ InSeq(CurrentDoc.doc[j], SubSeq(CurrentDoc.doc, j + 1, Len(CurrentDoc.doc)))
  /\ f_vector[IndexOf(Vocab, CurrentDoc.doc[j])] # Zero

\* The weight of a vocabulary token whose document frequency in the selected
\* df map equals the number of documents is 0 in every finished vector.
ZeroWeightWhenDfEqualsN ==
  \A n \in DOMAIN f_vectors_classname : \A p \in DOMAIN Vocab :
    ( /\ InSeq(Vocab[p], Documents[n].v.doc)
      /\ Len(Get(SelectedMap(call), Vocab[p])) = Len(Documents) )
    => f_vectors_classname[n].f_vector[p] = Zero

(***************************************************************************)
(* Properties of cull_doc_freq (SpecCull)                                  *)
(***************************************************************************)
\* C3: the map returned by cull_doc_freq holds exactly the entries of its
\* input whose document count is strictly between low and high, each with
\* its input value; a count equal to low or to high is excluded, and with
\* low >= high the result is empty and nothing is raised.
C3_StrictRangeFilter ==
  pc = "cull_returned" =>
    /\ err = "none"
    /\ IsDict(cull.out)
    /\ \A e \in Range(cull.in) :
         HasKey(cull.out, e.k) <=> (cull.low < Len(e.v) /\ Len(e.v) < cull.high)
    /\ \A e \in Range(cull.out) : HasKey(cull.in, e.k) /\ Get(cull.in, e.k) = e.v
    /\ (cull.low >= cull.high => cull.out = <<>>)

\* a call whose input holds a count equal to low, a count equal to high and
\* a count between them, the last one being the only entry returned
C3_Witness ==
  /\ pc = "cull_returned"
  /\ \E a, b, c \in Range(cull.in) :
       /\ Len(a.v) = cull.low
       /\ Len(b.v) = cull.high
       /\ cull.out = <<c>>

(***************************************************************************)
(* Properties of run and run_test (Spec)                                   *)
(***************************************************************************)
\* setup_tfidf_vectors has been called or has finished: tokenize_dataset
\* returned earlier
PastTokenizing == pc \in {"tfidf_call", "doc_loop", "token_loop", "tfidf_returned", "returned"}

\* the documents tokenize_dataset has processed so far
TokenizedDocs ==
  IF pc = "tokenizing" THEN 1..i
  ELSE IF PastTokenizing \/ err \in {"IndexError:print", "KeyError:idf", "ZeroDivisionError:idf"}
  THEN DOMAIN dataset
  ELSE {}

\* C2: after tokenize_dataset has processed any number of documents, every
\* token's entry of the document-frequency map lists each document name at
\* most once and has as many names as there are processed documents whose
\* token sequence contains the token (every such token having an entry);
\* when tokenize_dataset returns, all documents of the corpus are processed.
C2_SetBasedDocumentFrequency ==
  /\ IsDict(doc_freq_map)
  /\ \A e \in Range(doc_freq_map) :
       /\ Cardinality(Range(e.v)) = Len(e.v)
       /\ Len(e.v) = Cardinality({n \in TokenizedDocs : InSeq(e.k, dataset[n].v.doc)})
  /\ \A n \in TokenizedDocs : \A t \in Range(dataset[n].v.doc) : HasKey(doc_freq_map, t)
  /\ (Tokenized \/ PastTokenizing => TokenizedDocs = DOMAIN dataset)

\* tokenize_dataset has returned, one document repeats a token, and the
\* token is counted once for it and once for another document
C2_Witness ==
  /\ Tokenized
  /\ \E e \in Range(doc_freq_map) :
       /\ Len(e.v) = 2
       /\ \E n \in DOMAIN dataset : Count(dataset[n].v.doc, e.k) >= 2

\* C4 (as claimed): what run / run_test returns holds one pair per manifest
\* line, in manifest order, the n-th pair labelled with the class (run) or
\* the path (run_test) of the n-th line.
C4_OnePairPerManifestLine ==
  pc = "returned" =>
    /\ Len(ret.vectors) = Len(manifest)
    /\ \A n \in DOMAIN ret.vectors : n \in DOMAIN manifest =>
         ret.vectors[n].label =
           (IF mode = "train" THEN manifest[n].class ELSE manifest[n].path)

\* C7 (as claimed): a vocabulary token whose document frequency in the
\* selected df map equals the number of documents has weight 0 in every
\* vector, and run_test on a one-document test corpus returns one vector
\* whose components are all 0.
C7_ZeroWeightAndOneDocumentTest ==
  /\ ZeroWeightWhenDfEqualsN
  /\ (mode = "test" /\ Len(manifest) = 1 /\ pc \in {"returned", "raised"} =>
        /\ ret.returned
        /\ Len(ret.vectors) = 1
        /\ \A p \in DOMAIN ret.vectors[1].f_vector : ret.vectors[1].f_vector[p] = Zero)

\* C8: in run and in run_test, whenever the next token of the document being
\* vectorized is a vocabulary token, the df map selected for its idf has an
\* entry for it naming at least one document; no idf computation raises.
C8_DfPositive ==
  /\ (pc = "token_loop" /\ j < Len(CurrentDoc.doc) /\ InSeq(CurrentDoc.doc[j + 1], Vocab) =>
        /\ HasKey(SelectedMap(call), CurrentDoc.doc[j + 1])
        /\ Len(Get(SelectedMap(call), CurrentDoc.doc[j + 1])) > 0)
  /\ err \notin {"KeyError:idf", "ZeroDivisionError:idf"}

\* run() has just computed an idf, of non-zero weight, from the culled map
C8_Witness ==
  /\ mode = "train"
  /\ pc = "token_loop"
  /\ idf_src = "primary"
  /\ \E p \in DOMAIN f_vector : f_vector[p] # Zero

\* run_test has just computed an idf from the test-set map
C8_WitnessTest ==
  /\ mode = "test"
  /\ pc = "token_loop"
  /\ idf_src = "testset"
  /\ \E p \in DOMAIN f_vector : f_vector[p] # Zero

\* C9 (as claimed): run() culls with a positive lower bound and an upper
\* bound equal to the number of training documents, keeping a token exactly
\* when its document count is above the lower bound and below the number of
\* documents.
C9_HighBoundIsDocumentCount ==
  mode = "train" /\ PastTokenizing =>
    /\ cull.low > 0
    /\ cull.high = Len(dataset)
    /\ \A e \in Range(doc_freq_map) :
         HasKey(cull.out, e.k) <=> (Len(e.v) > cull.low /\ Len(e.v) < Len(dataset))

\* What run() does: the upper bound is the number of distinct tokens.
HighBoundIsTokenCount ==
  mode = "train" /\ PastTokenizing =>
    /\ cull.low = LowNumDocs
    /\ cull.high = Cardinality(UNION {Range(dataset[n].v.doc) : n \in DOMAIN dataset})

\* run() keeps a token that occurs in every training document
KeptAtDocumentCount ==
  /\ mode = "train"
  /\ pc = "returned"
  /\ \E e \in Range(ret.doc_freq) : Len(e.v) = Len(dataset)

====
